---- MODULE Spec2Model ----
(***************************************************************************)
(* Model of scholar_scraper.py: the page loop of                           *)
(* GoogleScholarScraperSerpAPI.search_articles, the response classifier    *)
(* handle_api_error and the per-article field extraction.                  *)
(*                                                                         *)
(* Python values are tagged records; a Python string is the sequence of    *)
(* its characters, so that lower(), `in` and join are computed.            *)
(***************************************************************************)
EXTENDS Integers, Sequences, FiniteSets, TLC

(* ---------------- bounds of the model ---------------- *)
MaxPages == 3
MaxItems == 2
MaxFetch == 4
MaxBad == 1
MaxAgainPages == 1
MaxConcPages == 2

(* ---------------- program constants ---------------- *)
max_retries == 3
retry_delay == 5
max_consecutive_errors == 3
PageSize == 10
DefaultDelay == 1

(* ---------------- Python values ---------------- *)
PyNone == [t |-> "none"]
VStr(s) == [t |-> "str", s |-> s]
VInt(n) == [t |-> "int", n |-> n]
VList(l) == [t |-> "list", l |-> l]
VDict(d) == [t |-> "dict", d |-> d]
EmptyDict == VDict(<<>>)
EmptyList == VList(<<>>)

\* bool(value)
Truthy(v) ==
  CASE v.t = "none" -> FALSE
    [] v.t = "str"  -> v.s # <<>>
    [] v.t = "int"  -> v.n # 0
    [] v.t = "list" -> v.l # <<>>
    [] v.t = "dict" -> DOMAIN v.d # {}

\* result of an expression that may raise
Ok(v) == [exc |-> FALSE, val |-> v]
Raised == [exc |-> TRUE]

\* obj.get(key, default): only a dict has .get
dict_get(obj, key, default) ==
  IF obj.t = "dict"
  THEN Ok(IF key \in DOMAIN obj.d THEN obj.d[key] ELSE default)
  ELSE Raised

(* ---------------- strings ---------------- *)
S_Untitled == <<"U","n","t","i","t","l","e","d">>
S_NA == <<"N","/","A">>
S_NoURL == <<"N","o"," ","U","R","L"," ","a","v","a","i","l","a","b","l","e">>
S_Unknown == <<"U","n","k","n","o","w","n">>
S_None == <<"N","o","n","e">>
S_Sep == <<","," ">>
S_Error == <<"E","r","r","o","r">>
S_Success == <<"S","u","c","c","e","s","s">>
K_rate_limit == <<"r","a","t","e"," ","l","i","m","i","t">>
K_too_many == <<"t","o","o"," ","m","a","n","y"," ","r","e","q","u","e","s","t","s">>
K_forbidden == <<"f","o","r","b","i","d","d","e","n">>
K_unauthorized == <<"u","n","a","u","t","h","o","r","i","z","e","d">>
K_captcha == <<"c","a","p","t","c","h","a">>
K_blocked == <<"b","l","o","c","k","e","d">>
K_no_results == <<"n","o"," ","r","e","s","u","l","t","s">>
K_hasnt == <<"h","a","s","n","'","t"," ","r","e","t","u","r","n","e","d">>
K_empty == <<"e","m","p","t","y">>

Upper == <<"A","B","C","D","E","F","G","H","I","J","K","L","M",
           "N","O","P","Q","R","S","T","U","V","W","X","Y","Z">>
LowerOf == <<"a","b","c","d","e","f","g","h","i","j","k","l","m",
             "n","o","p","q","r","s","t","u","v","w","x","y","z">>

\* str.lower()
Lower(s) ==
  [i \in 1..Len(s) |->
     IF \E j \in 1..26 : Upper[j] = s[i]
     THEN LowerOf[CHOOSE j \in 1..26 : Upper[j] = s[i]]
     ELSE s[i]]

\* sub in s
Contains(sub, s) ==
  \E i \in 1..(Len(s) - Len(sub) + 1) : SubSeq(s, i, i + Len(sub) - 1) = sub

Digits == <<"0","1","2","3","4","5","6","7","8","9">>

RECURSIVE NatToStr(_)
NatToStr(n) ==
  IF n < 10 THEN <<Digits[n + 1]>>
  ELSE NatToStr(n \div 10) \o <<Digits[(n % 10) + 1]>>

\* str(a) for the scalar values a list entry can be
PyStr(v) ==
  CASE v.t = "str"  -> v.s
    [] v.t = "none" -> S_None
    [] v.t = "int"  -> IF v.n < 0 THEN <<"-">> \o NatToStr(0 - v.n) ELSE NatToStr(v.n)

\* sep.join(parts): TypeError when a part is not a str
RECURSIVE JoinStr(_, _)
JoinStr(sep, parts) ==
  IF Len(parts) = 0 THEN <<>>
  ELSE IF Len(parts) = 1 THEN parts[1].s
  ELSE parts[1].s \o sep \o JoinStr(sep, Tail(parts))

str_join(sep, parts) ==
  IF \E i \in 1..Len(parts) : parts[i].t # "str"
  THEN Raised
  ELSE Ok(VStr(JoinStr(sep, parts)))

(* ---------------- handle_api_error ---------------- *)
Outcome(c, e) == [raised |-> FALSE, continue_scraping |-> c, error_type |-> e]
OutcomeRaised == [raised |-> TRUE]

handle_api_error(results) ==
  IF "error" \in DOMAIN results.d
  THEN LET error_msg == results.d["error"] IN
       IF error_msg.t # "str" THEN OutcomeRaised
       ELSE LET low == Lower(error_msg.s) IN
            IF Contains(K_rate_limit, low) \/ Contains(K_too_many, low)
              THEN Outcome(FALSE, "rate_limit")
            ELSE IF Contains(K_forbidden, low) \/ Contains(K_unauthorized, low)
              THEN Outcome(FALSE, "access_denied")
            ELSE IF Contains(K_captcha, low) \/ Contains(K_blocked, low)
              THEN Outcome(TRUE, "captcha")
            ELSE IF Contains(K_no_results, low) \/ Contains(K_hasnt, low)
              THEN Outcome(FALSE, "no_results")
            ELSE Outcome(TRUE, "generic_error")
  ELSE LET search_metadata == dict_get(results, "search_metadata", EmptyDict).val
           status == dict_get(search_metadata, "status", VStr(S_Unknown))
       IN
       IF status.exc THEN OutcomeRaised
       ELSE IF status.val = VStr(S_Error) THEN Outcome(TRUE, "processing_error")
       ELSE LET search_info == dict_get(results, "search_information", EmptyDict).val
                results_state == dict_get(search_info, "organic_results_state", VStr(<<>>))
            IN
            IF results_state.exc THEN OutcomeRaised
            ELSE IF results_state.val.t # "str" THEN OutcomeRaised
            ELSE IF Contains(K_empty, Lower(results_state.val.s))
              THEN Outcome(FALSE, "empty_results")
            ELSE Outcome(TRUE, "none")

(* ---------------- safe_get_field ---------------- *)
Key(k) == [t |-> "key", k |-> k]
KeyList(ks) == [t |-> "list", l |-> ks]

\* the loop `for key in keys: value = value.get(key, {})`
RECURSIVE walk_keys(_, _)
walk_keys(value, ks) ==
  IF Len(ks) = 0 THEN Ok(value)
  ELSE LET r == dict_get(value, Head(ks), EmptyDict) IN
       IF r.exc THEN Raised ELSE walk_keys(r.val, Tail(ks))

safe_get_field(data, keys, default) ==
  IF keys.t = "list"
  THEN LET r == walk_keys(data, keys.l) IN
       IF r.exc THEN default
       ELSE IF Truthy(r.val) THEN r.val ELSE default
  ELSE LET r == dict_get(data, keys.k, default) IN
       IF r.exc THEN default ELSE r.val

(* ---------------- one article of organic_results ---------------- *)
Record(ti, au, pu, ye, ci, li) ==
  [title |-> ti, authors |-> au, publication |-> pu, year |-> ye,
   cited_by |-> ci, link |-> li]
Made(rec) == [raised |-> FALSE, rec |-> rec]
MakeRaised == [raised |-> TRUE]

\* [a.get('name', 'Unknown') if isinstance(a, dict) else str(a) for a in authors_list]
author_names(authors_list) ==
  [i \in 1..Len(authors_list) |->
     IF authors_list[i].t = "dict"
     THEN dict_get(authors_list[i], "name", VStr(S_Unknown)).val
     ELSE VStr(PyStr(authors_list[i]))]

article_authors(authors_list) ==
  IF authors_list.t = "list" /\ authors_list.l # <<>>
  THEN str_join(S_Sep, author_names(authors_list.l))
  ELSE Ok(VStr(S_NA))

article_cited_by(cited_by_info) ==
  IF cited_by_info.t = "dict"
  THEN dict_get(cited_by_info, "total", VInt(0)).val
  ELSE VInt(0)

article_record(article) ==
  LET title == safe_get_field(article, Key("title"), VStr(S_Untitled))
      pub_info == dict_get(article, "publication_info", EmptyDict)
  IN
  IF pub_info.exc THEN MakeRaised
  ELSE
  LET authors_list == dict_get(pub_info.val, "authors", EmptyList) IN
  IF authors_list.exc THEN MakeRaised
  ELSE
  LET authors == article_authors(authors_list.val) IN
  IF authors.exc THEN MakeRaised
  ELSE
  LET inline_links == dict_get(article, "inline_links", EmptyDict).val
      cited_by_info == dict_get(inline_links, "cited_by", EmptyDict)
  IN
  IF cited_by_info.exc THEN MakeRaised
  ELSE
  LET cited_by == article_cited_by(cited_by_info.val)
      link == safe_get_field(article, Key("link"), VStr(S_NoURL))
      publication == safe_get_field(pub_info.val, Key("summary"), VStr(S_NA))
      year == safe_get_field(article, Key("year"), VStr(S_NA))
  IN Made(Record(title, authors.val, publication, year, cited_by, link))

(* ---------------- what the remote service can answer ---------------- *)
M_RateLimit == <<"R","a","t","e"," ","L","i","m","i","t"," ","h","i","t">>
M_TooMany == <<"T","o","o"," ","M","a","n","y"," ","R","e","q","u","e","s","t","s">>
M_Forbidden == <<"4","0","3"," ","F","o","r","b","i","d","d","e","n">>
M_Unauthorized == <<"U","n","a","u","t","h","o","r","i","z","e","d">>
M_Captcha == <<"C","A","P","T","C","H","A"," ","n","e","e","d","e","d">>
M_Blocked == <<"I","P"," ","b","l","o","c","k","e","d">>
M_NoResults == <<"N","o"," ","r","e","s","u","l","t","s">>
M_Hasnt == <<"G","o","o","g","l","e"," ","h","a","s","n","'","t"," ","r","e","t","u","r","n","e","d"," ","a","n","y">>
M_Generic == <<"S","e","r","v","e","r"," ","f","a","u","l","t">>
M_BlockedRate == <<"b","l","o","c","k","e","d",":"," ","r","a","t","e"," ","l","i","m","i","t">>
S_FullyEmpty == <<"F","u","l","l","y"," ","e","m","p","t","y">>
S_ResultsState == <<"R","e","s","u","l","t","s"," ","f","o","r"," ","e","x","a","c","t"," ","s","p","e","l","l","i","n","g">>
S_Ann == <<"A","n","n">>
S_Journal == <<"J","."," ","S","c","i">>
S_Year == <<"2","0","2","0">>

ErrorMsgs ==
  {VStr(M_RateLimit), VStr(M_TooMany), VStr(M_Forbidden), VStr(M_Unauthorized),
   VStr(M_Captcha), VStr(M_Blocked), VStr(M_NoResults), VStr(M_Hasnt),
   VStr(M_Generic), VStr(M_BlockedRate), PyNone}

ErrResp(msg) == VDict("error" :> msg)
StatusErrorResp == VDict("search_metadata" :> VDict("status" :> VStr(S_Error)))
MetaOk == "search_metadata" :> VDict("status" :> VStr(S_Success))
EmptyStateResp ==
  VDict(MetaOk @@
        "search_information" :> VDict("organic_results_state" :> VStr(S_FullyEmpty)))
InfoOk == "search_information" :> VDict("organic_results_state" :> VStr(S_ResultsState))
OkResp(items) == VDict(MetaOk @@ InfoOk @@ "organic_results" :> VList(items))
OkNoListResp == VDict(MetaOk @@ InfoOk)

\* the i-th result at offset start, complete
GoodItem(start, i) ==
  VDict("title" :> VStr(<<"P">> \o NatToStr(start + i)) @@
        "publication_info" :>
           VDict("authors" :> VList(<<VDict("name" :> VStr(S_Ann))>>) @@
                 "summary" :> VStr(S_Journal)) @@
        "inline_links" :> VDict("cited_by" :> VDict("total" :> VInt(start + i))) @@
        "link" :> VStr(<<"u">> \o NatToStr(start + i)) @@
        "year" :> VStr(S_Year))

\* the same result with a null publication_info
BadItem(start, i) ==
  VDict("title" :> VStr(<<"P">> \o NatToStr(start + i)) @@
        "publication_info" :> PyNone)

GoodItems(start, n) == [i \in 1..n |-> GoodItem(start, i)]

\* a response whose second article has a null publication_info
BadItems(start) == <<GoodItem(start, 1), BadItem(start, 2)>>

\* item lists of a response when a full page has n articles: none, the full
\* page, or BadItems
ItemLists(start, n) == {<<>>, GoodItems(start, n), BadItems(start)}

\* one message of each class, and a null error
RunErrorMsgs ==
  {VStr(M_RateLimit), VStr(M_Forbidden), VStr(M_Captcha), VStr(M_NoResults),
   VStr(M_Generic), PyNone}

Responses(start, n) ==
  {ErrResp(m) : m \in RunErrorMsgs} \cup
  {StatusErrorResp, EmptyStateResp, OkNoListResp} \cup
  {OkResp(items) : items \in ItemLists(start, n)}

FetchRaise(k) == [kind |-> "raise", exc |-> k]
FetchReturn(r) == [kind |-> "return", resp |-> r]
NoFetch == [kind |-> "none"]

\* outcomes of GoogleSearch(params).get_dict() for params["start"] = start
Outcomes(start, n) ==
  {FetchRaise(k) : k \in {"KeyError", "ConnectionError", "Exception"}} \cup
  {FetchReturn(r) : r \in Responses(start, n)}

Pages == 0..(MaxPages - 1)

\* Outcomes and handle_api_error, tabulated per page
PageOutcomes == [p \in Pages |-> [n \in 1..MaxItems |-> Outcomes(p * PageSize, n)]]
Classified ==
  [p \in Pages |-> [r \in UNION {Responses(p * PageSize, n) : n \in 1..MaxItems} |->
                      handle_api_error(r)]]

(* ---------------- state ---------------- *)
VARIABLES
  pc,                 \* "idle" | "while" | "sleep" | "done" | "interrupted"
  num_pages,          \* argument of search_articles
  page,               \* loop variable of `for page in range(num_pages)`
  retry_count,
  page_success,
  consecutive_errors,
  self_results,       \* self.results
  returned,           \* what the caller of search_articles has received
  wait_time,          \* argument of the time.sleep in progress, 0 when not sleeping
  pageFetches,        \* history: get_dict() calls for the current page; from MaxFetch on, MaxFetch plus their parity
  lastTag,            \* history: class of the latest get_dict() outcome
  lastItems,          \* history: organic_results of the latest OK response with items
  pageStartLen,       \* history: len(self.results) when the current page began
  genRun,             \* history: latest successive generic_error responses (up to 3)
  genRunLen,          \* history: len(self.results) before the first of them
  allGen,             \* history: every page before the current one answered generic_error at least once
  pageHadGen,         \* history: the current page answered generic_error
  page_len,           \* the number of articles on a full page of this query's results
  allOk,              \* history: every response so far was OK with a full page of complete articles
  badCount,           \* history: responses of this call that carried a malformed article
  lastStart,          \* history: params["start"] of the latest get_dict() call of this call
  callRecords,        \* history: the records made from the articles of this call's responses
  called_before,      \* an earlier call of search_articles on this object has returned
  other,              \* a second invocation running on the same object
  raw,                \* an article handed to the field extraction
  norm                \* its outcome

vars == <<pc, num_pages, page, retry_count, page_success, consecutive_errors,
          self_results, returned, wait_time, pageFetches, lastTag, lastItems,
          pageStartLen, genRun, genRunLen, allGen, pageHadGen, page_len, allOk,
          badCount, lastStart, callRecords, called_before, other, raw, norm>>

histVars == <<pageFetches, lastTag, lastItems,
              pageStartLen, genRun, genRunLen, allGen, pageHadGen, allOk, badCount,
              lastStart, callRecords>>

NotReturned == [got |-> FALSE]
\* pd.DataFrame(self.results) if self.results else pd.DataFrame(): the rows, copied
DataFrame(rows) == [got |-> TRUE, df |-> rows]
NotRun == [run |-> FALSE]
Ran(r) == [run |-> TRUE, out |-> r]

Min(a, b) == IF a < b THEN a ELSE b

(* ---------------- the body of the while loop, as functions of the locals ---------------- *)
\* st: [page, num_pages, retry_count, page_success, consecutive_errors, results]
\* the body yields st extended with pc, wait_time and returned
Goes(st, rc, ps, ce, res, next, wait) ==
  [page |-> st.page, num_pages |-> st.num_pages, retry_count |-> rc,
   page_success |-> ps, consecutive_errors |-> ce, results |-> res,
   pc |-> next, wait_time |-> wait, returned |-> NotReturned]

Returns(st, ce, res) ==
  [page |-> st.page, num_pages |-> st.num_pages, retry_count |-> st.retry_count,
   page_success |-> st.page_success, consecutive_errors |-> ce, results |-> res,
   pc |-> "done", wait_time |-> 0, returned |-> DataFrame(res)]

\* the three except clauses; ce and res are the values at the raise
on_exception(st, k, ce, res) ==
  LET rc == st.retry_count + 1 IN
  IF rc < max_retries
  THEN Goes(st, rc, st.page_success, ce, res, "sleep",
            IF k = "ConnectionError" THEN retry_delay * rc ELSE retry_delay)
  ELSE Goes(st, rc, st.page_success, ce, res, "while", 0)

\* a wait that does not grow with the retry counter
backoff_flat(rc) == retry_delay

\* wait_time = self.retry_delay * retry_count
backoff(rc) == retry_delay * rc

\* on_error_type without the test of the consecutive-error ceiling
on_error_type_noceiling(st) ==
  LET ce == st.consecutive_errors + 1
      rc == st.retry_count + 1
  IN
  IF rc < max_retries
  THEN Goes(st, rc, st.page_success, ce, st.results, "sleep", backoff(rc))
  ELSE Goes(st, rc, st.page_success, ce, st.results, "while", 0)

\* `if error_type:` branch
on_error_type(st) ==
  LET ce == st.consecutive_errors + 1 IN
  IF ce >= max_consecutive_errors
  THEN Returns(st, ce, st.results)
  ELSE LET rc == st.retry_count + 1 IN
       IF rc < max_retries
       THEN Goes(st, rc, st.page_success, ce, st.results, "sleep", backoff(rc))
       ELSE Goes(st, rc, st.page_success, ce, st.results, "while", 0)

\* process_articles inserting each record at the front of the page's records
RECURSIVE process_articles_front(_, _)
process_articles_front(res, articles) ==
  IF Len(articles) = 0 THEN [raised |-> FALSE, results |-> res]
  ELSE LET r == article_record(articles[Len(articles)]) IN
       IF r.raised THEN [raised |-> TRUE, results |-> res]
       ELSE process_articles_front(Append(res, r.rec),
                                   SubSeq(articles, 1, Len(articles) - 1))

\* `for article in results["organic_results"]`: append until an article raises
RECURSIVE process_articles(_, _)
process_articles(res, articles) ==
  IF Len(articles) = 0 THEN [raised |-> FALSE, results |-> res]
  ELSE LET r == article_record(Head(articles)) IN
       IF r.raised THEN [raised |-> TRUE, results |-> res]
       ELSE process_articles(Append(res, r.rec), Tail(articles))

\* from `consecutive_errors = 0` to the rate-limiting sleep
on_ok(st, results) ==
  IF "organic_results" \in DOMAIN results.d /\ Truthy(results.d["organic_results"])
  THEN LET p == process_articles(st.results, results.d["organic_results"].l) IN
       IF p.raised THEN on_exception(st, "Exception", 0, p.results)
       ELSE IF st.page < st.num_pages - 1
            THEN Goes(st, st.retry_count, TRUE, 0, p.results, "sleep", DefaultDelay)
            ELSE Goes(st, st.retry_count, TRUE, 0, p.results, "while", 0)
  ELSE Goes(st, st.retry_count, st.page_success, 0 + 1, st.results, "while", 0)

\* the rest of the while body after handle_api_error returned h
after_classify(st, h, results) ==
  IF h.raised
    THEN on_exception(st, "Exception", st.consecutive_errors, st.results)
  ELSE IF ~h.continue_scraping
    THEN Returns(st, st.consecutive_errors, st.results)
  ELSE IF h.error_type # "none"
    THEN on_error_type(st)
  ELSE on_ok(st, results)

\* one iteration of the while loop, given what get_dict() did
attempt(st, o) ==
  IF o.kind = "raise"
  THEN on_exception(st, o.exc, st.consecutive_errors, st.results)
  ELSE after_classify(st, handle_api_error(o.resp), o.resp)

Locals ==
  [page |-> page, num_pages |-> num_pages, retry_count |-> retry_count,
   page_success |-> page_success, consecutive_errors |-> consecutive_errors,
   results |-> self_results]

HasItems(resp) ==
  "organic_results" \in DOMAIN resp.d /\ Truthy(resp.d["organic_results"])

\* class of an outcome, for the history variables
TagOf(o, h) ==
  IF o.kind = "raise" THEN "raise"
  ELSE IF h.raised THEN "raise"
  ELSE IF h.error_type # "none" THEN h.error_type
  ELSE IF HasItems(o.resp) THEN "ok_items"
  ELSE "ok_zero"

\* the outcome is the response with a malformed article
IsBad(o, p) == o.kind = "return" /\ o.resp = OkResp(BadItems(p * PageSize))

\* the locals of an invocation that has not begun
OtherIdle ==
  [pc |-> "idle", num_pages |-> 0, page |-> 0, retry_count |-> 0,
   page_success |-> FALSE, consecutive_errors |-> 0, returned |-> NotReturned,
   fetched |-> <<>>]

\* params["start"] for a page
start_of(p) == p * PageSize

\* the next value of `for page in range(num_pages)` that skips a page
next_page_skip(p) == p + 2

\* the next value of `for page in range(num_pages)`
next_page(p) == p + 1

\* self.results at the start of a call if line 137 were missing
kept_results == self_results

\* self.results after line 137
fresh_results == <<>>

(* ---------------- actions ---------------- *)
InitRun ==
  /\ pc = "idle"
  /\ num_pages = 0
  /\ page = 0
  /\ retry_count = 0
  /\ page_success = FALSE
  /\ consecutive_errors = 0
  /\ self_results = <<>>
  /\ returned = NotReturned
  /\ wait_time = 0
  /\ pageFetches = 0
  /\ lastTag = "nofetch"
  /\ lastItems = <<>>
  /\ pageStartLen = 0
  /\ genRun = 0
  /\ genRunLen = 0
  /\ allGen = TRUE
  /\ pageHadGen = FALSE
  /\ page_len = 0
  /\ allOk = TRUE
  /\ badCount = 0
  /\ lastStart = 0
  /\ callRecords = <<>>
  /\ called_before = FALSE
  /\ other = OtherIdle

\* the scraper object after __init__, no article being extracted
Init ==
  /\ InitRun
  /\ raw = PyNone
  /\ norm = NotRun

\* search_articles is called, on a new object or after an earlier call has
\* returned: lines 137-152 up to the first while test
Start(n, len) ==
  /\ pc \in {"idle", "done"}
  /\ called_before' = (pc = "done")
  /\ called_before' => n <= MaxAgainPages
  /\ num_pages' = n
  /\ page_len' = len
  /\ self_results' = fresh_results
  /\ consecutive_errors' = 0
  /\ page' = 0
  /\ retry_count' = 0
  /\ page_success' = FALSE
  /\ pc' = "while"
  /\ returned' = NotReturned
  /\ wait_time' = 0
  /\ pageFetches' = 0
  /\ lastTag' = "nofetch"
  /\ lastItems' = <<>>
  /\ pageStartLen' = 0
  /\ genRun' = 0
  /\ genRunLen' = 0
  /\ allGen' = TRUE
  /\ pageHadGen' = FALSE
  /\ allOk' = TRUE
  /\ badCount' = 0
  /\ lastStart' = 0
  /\ callRecords' = <<>>
  /\ UNCHANGED <<other, raw, norm>>

\* one pass through the while body: a get_dict() call and everything up to
\* the next sleep, the next while test or the return
Attempt(o) ==
  /\ pc = "while"
  /\ retry_count < max_retries /\ ~page_success
  /\ IsBad(o, page) => badCount < MaxBad
  /\ badCount' = IF IsBad(o, page) THEN badCount + 1 ELSE badCount
  /\ LET h == IF o.kind = "raise" THEN OutcomeRaised ELSE Classified[page][o.resp]
         a == IF o.kind = "raise"
              THEN attempt(Locals, o)
              ELSE after_classify(Locals, h, o.resp)
         tag == TagOf(o, h)
         gen == tag = "generic_error"
     IN
     /\ pc' = a.pc
     /\ retry_count' = a.retry_count
     /\ page_success' = a.page_success
     /\ consecutive_errors' = a.consecutive_errors
     /\ self_results' = a.results
     /\ returned' = a.returned
     /\ wait_time' = a.wait_time
     /\ pageFetches' = IF pageFetches > MaxFetch THEN MaxFetch ELSE pageFetches + 1
     /\ lastTag' = tag
     /\ lastItems' = IF tag = "ok_items" THEN o.resp.d["organic_results"].l ELSE <<>>
     /\ genRun' = IF gen THEN Min(genRun + 1, 3) ELSE 0
     /\ genRunLen' = IF gen THEN (IF genRun = 0 THEN Len(self_results) ELSE genRunLen)
                     ELSE 0
     /\ pageHadGen' = (pageHadGen \/ gen)
     /\ allOk' = (allOk /\ o.kind = "return"
                        /\ o.resp = OkResp(GoodItems(page * PageSize, page_len)))
     /\ lastStart' = start_of(page)
     /\ callRecords' = IF tag = "ok_items"
                       THEN process_articles(callRecords, o.resp.d["organic_results"].l).results
                       ELSE callRecords
  /\ UNCHANGED <<num_pages, page, pageStartLen, allGen, page_len, called_before, other, raw, norm>>

\* the remote service answers the request of the current page in any of its ways
Fetch == pc = "while" /\ \E o \in PageOutcomes[page][page_len] : Attempt(o)

\* time.sleep returns
SleepDone ==
  /\ pc = "sleep"
  /\ pc' = "while"
  /\ wait_time' = 0
  /\ UNCHANGED <<num_pages, page, retry_count, page_success, consecutive_errors,
                 self_results, returned, histVars, page_len, called_before, other, raw, norm>>

\* the while test fails: lines 262-265, then the next page or lines 267-272
NextPage ==
  /\ pc = "while"
  /\ ~(retry_count < max_retries /\ ~page_success)
  /\ consecutive_errors' = IF ~page_success THEN consecutive_errors + 1
                           ELSE consecutive_errors
  /\ IF next_page(page) < num_pages
     THEN /\ page' = next_page(page)
          /\ retry_count' = 0
          /\ page_success' = FALSE
          /\ pc' = "while"
          /\ returned' = returned
          /\ pageStartLen' = Len(self_results)
          /\ pageFetches' = 0
          /\ pageHadGen' = FALSE
          /\ allGen' = (allGen /\ pageHadGen)
     ELSE /\ pc' = "done"
          /\ returned' = DataFrame(self_results)
          /\ UNCHANGED <<page, retry_count, page_success, pageStartLen, pageFetches,
                         pageHadGen, allGen>>
  /\ UNCHANGED <<num_pages, self_results, wait_time, lastTag, lastItems,
                 genRun, genRunLen, page_len, allOk, badCount,
                 lastStart, callRecords, called_before, other, raw, norm>>

\* KeyboardInterrupt during a sleep or between two pages: it is not an
\* Exception, no except clause of search_articles takes it, and __main__
\* (lines 391-393) exits without a DataFrame
Interrupt ==
  /\ \/ pc = "sleep"
     \/ pc = "while" /\ ~(retry_count < max_retries /\ ~page_success)
  /\ pc' = "interrupted"
  /\ wait_time' = 0
  /\ UNCHANGED <<num_pages, page, retry_count, page_success, consecutive_errors,
                 self_results, returned, histVars, page_len, called_before, other, raw, norm>>

Next ==
  \/ \E n \in 1..MaxPages : Start(n, MaxItems)
  \/ Fetch
  \/ SleepDone
  \/ NextPage
  \/ Interrupt

Spec == Init /\ [][Next]_vars

\* the interpreter always runs the next statement of the call
FairSpec == Spec /\ WF_vars(Next)

(* ---------------- two invocations on one object ---------------- *)
\* everything but self.results and the second invocation
ownVars == <<pc, num_pages, page, retry_count, page_success, consecutive_errors,
             returned, wait_time, histVars, page_len, called_before, raw, norm>>

\* what the service answers to either invocation: a page of one article, a
\* generic error, or no connection
ConcOutcomes(p) ==
  {FetchReturn(OkResp(GoodItems(start_of(p), 1))),
   FetchReturn(ErrResp(VStr(M_Generic))),
   FetchRaise("ConnectionError")}

\* the locals of the second invocation, with the self.results they share
OtherLocals ==
  [page |-> other.page, num_pages |-> other.num_pages,
   retry_count |-> other.retry_count, page_success |-> other.page_success,
   consecutive_errors |-> other.consecutive_errors, results |-> self_results]

\* an invocation with these locals is not running: it has not begun, has
\* returned, is inside time.sleep or is inside get_dict()
Suspended(st) ==
  \/ st.pc \in {"idle", "sleep", "done"}
  \/ st.pc = "while" /\ st.retry_count < max_retries /\ ~st.page_success

OwnSuspended ==
  Suspended([pc |-> pc, retry_count |-> retry_count, page_success |-> page_success])

\* the first invocation is called
ConcStart == Suspended(other) /\ pc = "idle" /\ \E n \in 1..MaxConcPages : Start(n, 1)

\* get_dict() returns in the first invocation, which runs to its next wait,
\* get_dict() call or while test
ConcFetch ==
  Suspended(other) /\ pc = "while" /\ \E o \in ConcOutcomes(page) : Attempt(o)

\* time.sleep returns in the first invocation
ConcSleepDone == Suspended(other) /\ SleepDone

\* the while test of the first invocation fails
ConcNextPage == Suspended(other) /\ NextPage

\* the second invocation is called: lines 137-152
OtherStart ==
  /\ OwnSuspended
  /\ other.pc = "idle"
  /\ \E n \in 1..MaxConcPages :
       other' = [OtherIdle EXCEPT !.pc = "while", !.num_pages = n]
  /\ self_results' = fresh_results
  /\ UNCHANGED ownVars

\* get_dict() returns in the second invocation, which runs to its next wait,
\* get_dict() call or while test
OtherAttempt(o) ==
  /\ OwnSuspended
  /\ other.pc = "while"
  /\ other.retry_count < max_retries /\ ~other.page_success
  /\ LET a == attempt(OtherLocals, o)
         items == IF o.kind = "return" /\ TagOf(o, handle_api_error(o.resp)) = "ok_items"
                  THEN o.resp.d["organic_results"].l ELSE <<>>
     IN
     /\ self_results' = a.results
     /\ other' = [pc |-> a.pc, num_pages |-> other.num_pages, page |-> other.page,
                  retry_count |-> a.retry_count, page_success |-> a.page_success,
                  consecutive_errors |-> a.consecutive_errors, returned |-> a.returned,
                  fetched |-> process_articles(other.fetched, items).results]
  /\ UNCHANGED ownVars

OtherFetch == other.pc = "while" /\ \E o \in ConcOutcomes(other.page) : OtherAttempt(o)

\* time.sleep returns in the second invocation
OtherSleepDone ==
  /\ OwnSuspended
  /\ other.pc = "sleep"
  /\ other' = [other EXCEPT !.pc = "while"]
  /\ UNCHANGED <<self_results, ownVars>>

\* the while test of the second invocation fails: lines 262-272
OtherNextPage ==
  /\ OwnSuspended
  /\ other.pc = "while"
  /\ ~(other.retry_count < max_retries /\ ~other.page_success)
  /\ LET ce == IF ~other.page_success THEN other.consecutive_errors + 1
               ELSE other.consecutive_errors
     IN
     other' = IF next_page(other.page) < other.num_pages
              THEN [other EXCEPT !.consecutive_errors = ce, !.page = next_page(other.page),
                                 !.retry_count = 0, !.page_success = FALSE]
              ELSE [other EXCEPT !.consecutive_errors = ce, !.pc = "done",
                                 !.returned = DataFrame(self_results)]
  /\ UNCHANGED <<self_results, ownVars>>

ConcNext ==
  \/ ConcStart
  \/ ConcFetch
  \/ ConcSleepDone
  \/ ConcNextPage
  \/ OtherStart
  \/ OtherFetch
  \/ OtherSleepDone
  \/ OtherNextPage

\* the two invocations take turns at their waits and get_dict() calls
ConcSpec == Init /\ [][ConcNext]_vars

(* ---------------- the field extraction on its own ---------------- *)
Absent == [t |-> "absent"]

\* a dict with the keys of f whose value is not Absent
MkDict(f) == VDict([k \in {x \in DOMAIN f : f[x] # Absent} |-> f[k]])

TitleVals == {Absent, PyNone, VStr(<<>>), VStr(<<"T">>)}
AuthorsVals ==
  {Absent, PyNone, EmptyList, VStr(S_Ann),
   VList(<<VDict("name" :> VStr(S_Ann))>>),
   VList(<<VDict("name" :> VStr(S_Ann)), VStr(<<"B","o">>)>>),
   VList(<<EmptyDict, VDict("name" :> VStr(S_Ann))>>),
   VList(<<VDict("name" :> PyNone)>>),
   VList(<<VInt(7), PyNone>>)}
SummaryVals == {Absent, VStr(<<>>), VStr(S_Journal)}
PubInfoVals ==
  {Absent, PyNone, VStr(S_Journal)} \cup
  {MkDict("authors" :> a @@ "summary" :> su) : a \in AuthorsVals, su \in SummaryVals}
TotalVals == {Absent, PyNone, VInt(5), VInt(0 - 1), VStr(<<"1","2">>)}
InlineVals ==
  {Absent, PyNone, EmptyDict, VDict("cited_by" :> PyNone),
   VDict("cited_by" :> VStr(<<"x">>))} \cup
  {VDict("cited_by" :> MkDict("total" :> to)) : to \in TotalVals}
LinkVals == {Absent, VStr(<<>>), VStr(<<"u">>)}
YearVals == {Absent, PyNone, VStr(S_Year)}

\* articles as the service's JSON can carry them
RawItems ==
  {MkDict("title" :> ti @@ "publication_info" :> pi @@ "inline_links" :> il @@
          "link" :> li @@ "year" :> ye) :
     ti \in TitleVals, pi \in PubInfoVals, il \in InlineVals,
     li \in LinkVals, ye \in YearVals}

NormInit ==
  /\ InitRun
  /\ raw \in RawItems
  /\ norm = NotRun

\* lines 196-230 for the article raw
Normalize ==
  /\ norm = NotRun
  /\ norm' = Ran(article_record(raw))
  /\ UNCHANGED <<pc, num_pages, page, retry_count, page_success, consecutive_errors,
                 self_results, returned, wait_time, histVars, page_len, called_before, other, raw>>

NormNext == Normalize

NormSpec == NormInit /\ [][NormNext]_vars

(* ---------------- the classification on its own ---------------- *)
ErrorVals == {Absent, VStr(<<>>)} \cup ErrorMsgs
MetadataVals ==
  {Absent, PyNone, EmptyDict, VDict("status" :> VStr(S_Error)),
   VDict("status" :> VStr(S_Success))}
InformationVals ==
  {Absent, PyNone, EmptyDict, VDict("organic_results_state" :> VStr(<<>>)),
   VDict("organic_results_state" :> VStr(S_FullyEmpty)),
   VDict("organic_results_state" :> VStr(S_ResultsState))}

\* responses as the service's JSON can carry them
RawResponses ==
  {MkDict("error" :> e @@ "search_metadata" :> m @@ "search_information" :> i) :
     e \in ErrorVals, m \in MetadataVals, i \in InformationVals}

ClassInit ==
  /\ InitRun
  /\ raw \in RawResponses
  /\ norm = NotRun

\* line 171 for the response raw
Classify ==
  /\ norm = NotRun
  /\ norm' = Ran(handle_api_error(raw))
  /\ UNCHANGED <<pc, num_pages, page, retry_count, page_success, consecutive_errors,
                 self_results, returned, wait_time, histVars, page_len, called_before, other, raw>>

ClassNext == Classify

ClassSpec == ClassInit /\ [][ClassNext]_vars

(* ======================= properties ======================= *)
IsPrefix(a, b) == Len(a) <= Len(b) /\ SubSeq(b, 1, Len(a)) = a

\* the record of the i-th complete article at offset start
GoodRecord(start, i) ==
  Record(VStr(<<"P">> \o NatToStr(start + i)), VStr(S_Ann), VStr(S_Journal),
         VStr(S_Year), VInt(start + i), VStr(<<"u">> \o NatToStr(start + i)))

\* n pages of N records, by page and then by position in the page
ExpectedRows(n, N) ==
  [k \in 1..(n * N) |-> GoodRecord(((k - 1) \div N) * PageSize, ((k - 1) % N) + 1)]

StopTags == {"rate_limit", "access_denied", "no_results", "empty_results"}

\* a get_dict() call was the latest thing the current page did
AfterFetch == pc \in {"sleep", "while"} /\ pageFetches > 0

(* C1: when every response is OK with N = page_len complete articles, each page is
   fetched exactly once and the call returns pages x N records, ordered by
   page and, in a page, by the order of the response. *)
C1_AllPagesInOrder ==
  allOk =>
    /\ pageFetches <= 1
    /\ pc = "done" =>
         /\ page = num_pages - 1
         /\ pageFetches = 1
         /\ returned = DataFrame(ExpectedRows(num_pages, page_len))

C1_Witness ==
  /\ pc = "done" /\ allOk /\ page_len = 2 /\ num_pages = 3
  /\ returned.got /\ Len(returned.df) = 6

(* C2: every call of search_articles ends, whatever the remote service
   answers: the retry ceilings bound the number of get_dict() calls. *)
C2_Terminates == <>(pc \in {"done", "interrupted"})

(* C3: a response classified rate_limit, access_denied, no_results or
   empty_results for page K ends the call at once, with exactly the records
   collected from the pages before K. *)
C3_StopReturnsEarlierPages ==
  lastTag \in StopTags =>
    /\ pc = "done"
    /\ returned = DataFrame(SubSeq(self_results, 1, pageStartLen))

(* C4, as claimed, for the first three pages of a run: when pages 0, 1 and 2
   each answer generic_error, the call stops at page 2, no later page is
   begun, and it returns what was accumulated before page 0: nothing. *)
C4_ThreePagesStop ==
  /\ ~(allGen /\ page > 2)
  /\ (allGen /\ pageHadGen /\ page = 2 /\ pc = "done") => returned = DataFrame(<<>>)

(* C4, amended: when three successive responses are each classified
   generic_error, the call returns at the third of them, with exactly what
   was accumulated before the first of them. *)
C4_ThreeResponsesStop ==
  genRun = 3 =>
    /\ pc = "done"
    /\ Len(self_results) = genRunLen
    /\ returned = DataFrame(self_results)

C4_Witness ==
  /\ genRun = 3 /\ pc = "done"
  /\ returned.got /\ Len(returned.df) > 0
  /\ page < num_pages - 1

(* C5: when the third attempt of a page returns an OK response with items,
   the records of that response are appended, the page has succeeded and the
   consecutive-error counter is 0. *)
C5_ThirdAttemptSucceeds ==
  (AfterFetch /\ pageFetches = 3 /\ lastTag = "ok_items") =>
    /\ consecutive_errors = 0
    /\ page_success
    /\ Len(self_results) >= Len(lastItems)
    /\ \A i \in 1..Len(lastItems) :
         self_results[Len(self_results) - Len(lastItems) + i] =
           article_record(lastItems[i]).rec

(* C6: an interrupt during a wait or between pages still hands the caller
   the records accumulated so far. *)
C6_InterruptKeepsResults ==
  pc = "interrupted" => returned = DataFrame(self_results)

RECURSIVE PathGet(_, _)
PathGet(v, ks) ==
  IF Len(ks) = 0 THEN v
  ELSE IF v.t = "dict" /\ Head(ks) \in DOMAIN v.d THEN PathGet(v.d[Head(ks)], Tail(ks))
  ELSE Absent

NoText(v) == v.t # "str" \/ v.s = <<>>
NoList(v) == v.t # "list" \/ v.l = <<>>
NoCount(v) == v.t # "int"

\* what an entry of the authors list contributes
EntryName(e) ==
  IF e.t = "dict"
  THEN (IF "name" \in DOMAIN e.d THEN e.d["name"] ELSE VStr(S_Unknown))
  ELSE VStr(PyStr(e))

(* C8: the field extraction never raises, and a field that is absent, empty
   or of an unexpected shape gets its default: 'Untitled', 'N/A', 0,
   'No URL available'. *)
C8_NormalizeTotal ==
  norm.run =>
    /\ ~norm.out.raised
    /\ NoText(PathGet(raw, <<"title">>)) => norm.out.rec.title = VStr(S_Untitled)
    /\ NoList(PathGet(raw, <<"publication_info", "authors">>)) =>
         norm.out.rec.authors = VStr(S_NA)
    /\ NoText(PathGet(raw, <<"publication_info", "summary">>)) =>
         norm.out.rec.publication = VStr(S_NA)
    /\ NoText(PathGet(raw, <<"year">>)) => norm.out.rec.year = VStr(S_NA)
    /\ NoCount(PathGet(raw, <<"inline_links", "cited_by", "total">>)) =>
         norm.out.rec.cited_by = VInt(0)
    /\ NoText(PathGet(raw, <<"link">>)) => norm.out.rec.link = VStr(S_NoURL)

\* nothing but the authors list can make the extraction of the article raise
AuthorsReached(item) ==
  /\ PathGet(item, <<"publication_info">>).t \in {"absent", "dict"}
  /\ PathGet(item, <<"inline_links">>).t \in {"absent", "dict"}

(* C9, for the articles whose publication_info and inline_links are mappings
   or absent: a non-empty authors list yields its entries joined with ', ' in order,
   a mapping giving its name or 'Unknown', another entry its str(); an
   absent, empty or non-list authors value yields 'N/A'. *)
C9_AuthorsJoined ==
  (norm.run /\ AuthorsReached(raw)) =>
    LET a == PathGet(raw, <<"publication_info", "authors">>) IN
    /\ ~norm.out.raised
    /\ IF NoList(a) THEN norm.out.rec.authors = VStr(S_NA)
       ELSE LET names == [i \in 1..Len(a.l) |-> EntryName(a.l[i])] IN
            /\ \A i \in 1..Len(names) : names[i].t = "str"
            /\ norm.out.rec.authors = VStr(JoinStr(S_Sep, names))

(* C10: no page is fetched more than max_retries times. *)
C10_AtMostThreeFetches == pageFetches <= max_retries

(* C11: the consecutive-error counter never exceeds max_consecutive_errors,
   and once it has reached it the call has returned: no get_dict() call is
   issued and no wait is begun with the counter at the ceiling. *)
C11_CeilingEnforced ==
  /\ consecutive_errors <= max_consecutive_errors
  /\ consecutive_errors >= max_consecutive_errors => pc = "done"

\* the step is a get_dict() call with all that follows it
FetchStep == pageFetches' # pageFetches /\ pageFetches' > 0

(* C12: a response classified captcha increments the consecutive-error
   counter, and the get_dict() call that follows it, if any, is the first one
   of the next page. *)
C12_CaptchaNextPage ==
  [][FetchStep =>
       /\ lastTag' = "captcha" => consecutive_errors' = consecutive_errors + 1
       /\ lastTag = "captcha" => pageFetches = 0]_vars

FetchRaises == {"KeyError", "ConnectionError", "Exception"}

(* C13: wherever an attempt can begin, an exception raised by get_dict()
   leaves the same retry counter, the same consecutive-error counter, the
   same decision to return or go on and the same wait as a response
   classified generic_error. *)
C13_RaiseLikeGeneric ==
  (pc = "while" /\ retry_count < max_retries /\ ~page_success) =>
    \A k \in FetchRaises :
      LET e == attempt(Locals, FetchRaise(k))
          g == attempt(Locals, FetchReturn(ErrResp(VStr(M_Generic))))
      IN /\ e.retry_count = g.retry_count
         /\ e.consecutive_errors = g.consecutive_errors
         /\ e.pc = g.pc
         /\ e.wait_time = g.wait_time

Tags ==
  {"rate_limit", "access_denied", "captcha", "no_results", "generic_error",
   "processing_error", "empty_results", "none"}

\* the tag of an error message by the claimed order of the keywords
TagOfMessage(low) ==
  IF Contains(K_rate_limit, low) \/ Contains(K_too_many, low) THEN "rate_limit"
  ELSE IF Contains(K_forbidden, low) \/ Contains(K_unauthorized, low) THEN "access_denied"
  ELSE IF Contains(K_captcha, low) \/ Contains(K_blocked, low) THEN "captcha"
  ELSE IF Contains(K_no_results, low) \/ Contains(K_hasnt, low) THEN "no_results"
  ELSE "generic_error"

\* the results-state of the response says that there are no results
SaysEmpty(resp) ==
  LET st == PathGet(resp, <<"search_information", "organic_results_state">>) IN
  st.t = "str" /\ Contains(K_empty, Lower(st.s))

(* C14: the classification of any response yields a tag of the closed set and
   never raises; with a top-level error the tag is the first match among
   rate_limit, access_denied, captcha, no_results, else generic_error,
   whatever the case of the message and whatever the metadata; without one,
   status 'Error' gives processing_error, else a results-state saying empty
   gives empty_results, else OK; exactly rate_limit, access_denied,
   no_results and empty_results stop the run. *)
C14_ClassifyTotal ==
  norm.run =>
    LET err == PathGet(raw, <<"error">>) IN
    /\ ~norm.out.raised
    /\ norm.out.error_type \in Tags
    /\ norm.out.continue_scraping = (norm.out.error_type \notin StopTags)
    /\ err.t = "str" => norm.out.error_type = TagOfMessage(Lower(err.s))
    /\ err = Absent =>
         norm.out.error_type =
           IF PathGet(raw, <<"search_metadata", "status">>) = VStr(S_Error)
             THEN "processing_error"
           ELSE IF SaysEmpty(raw) THEN "empty_results"
           ELSE "none"

(* C15: every get_dict() call asks for the offset page x 10; the first call
   of a run asks for offset 0 and every later one for the offset of the call
   before it or for that offset plus 10, so no page is skipped and none is
   fetched again after a later one. *)
C15_SequentialOffsets ==
  [][FetchStep =>
       /\ lastStart' = page * PageSize
       /\ page' = page
       /\ IF lastTag = "nofetch" THEN lastStart' = 0
          ELSE lastStart' \in {lastStart, lastStart + PageSize}]_vars

C15_Witness ==
  /\ page = 2 /\ pageFetches = 2 /\ lastStart = 2 * PageSize
  /\ lastTag = "generic_error"

(* C16: the cited_by of a record is the value at inline_links -> cited_by ->
   total when that is an integer >= 0, and 0 in every other case. *)
C16_CitedByNonNegative ==
  (norm.run /\ ~norm.out.raised) =>
    LET total == PathGet(raw, <<"inline_links", "cited_by", "total">>) IN
    norm.out.rec.cited_by = IF total.t = "int" /\ total.n >= 0 THEN total ELSE VInt(0)

RetryTags == {"generic_error", "processing_error"}

(* C17: a response classified generic_error or processing_error that does not
   end the call increments the retry counter of the page to k; when
   k < max_retries the call then sleeps retry_delay x k and goes back to the
   same page, and when k = max_retries it does not sleep. *)
C17_Backoff ==
  [][/\ (FetchStep /\ lastTag' \in RetryTags /\ pc' # "done") =>
          /\ retry_count' = retry_count + 1
          /\ page' = page
          /\ ~page_success'
          /\ IF retry_count' < max_retries
             THEN pc' = "sleep" /\ wait_time' = retry_delay * retry_count'
             ELSE pc' = "while" /\ wait_time' = 0
     /\ (pc = "sleep" /\ pc' = "while") =>
          page' = page /\ retry_count' = retry_count /\ page_success' = page_success]_vars

C17_Witness ==
  /\ pc = "sleep" /\ lastTag = "processing_error"
  /\ retry_count = 2 /\ wait_time = 2 * retry_delay

(* C18: every call of search_articles on an object, the first one or one
   after earlier calls, begins with self.results empty, retry_count 0 and
   consecutive_errors 0 at page 0; self.results holds the records made from
   this call's responses and nothing else, and that is what it returns. *)
C18_CallsIndependent ==
  [][/\ (pc \in {"idle", "done"} /\ pc' = "while") =>
          /\ self_results' = <<>>
          /\ retry_count' = 0 /\ consecutive_errors' = 0
          /\ page' = 0 /\ ~page_success'
     /\ self_results' = callRecords'
     /\ pc' = "done" => returned' = DataFrame(callRecords')]_vars

C18_Witness ==
  /\ called_before /\ pc = "done"
  /\ returned.got /\ Len(returned.df) = MaxItems
  /\ consecutive_errors = 0

(* C19: when two invocations on one object are interleaved, each returns
   exactly the records made from its own responses, in its own order. *)
C19_NoSharedState ==
  /\ pc = "done" => returned = DataFrame(callRecords)
  /\ other.pc = "done" => other.returned = DataFrame(other.fetched)

(* C20: what the current page has added to self.results is nothing while the
   page has not succeeded, and exactly the records of all items of the one
   response that made it succeed afterwards; the records of earlier pages
   stay as they were. *)
C20_PageAtomic ==
  /\ pageStartLen <= Len(self_results)
  /\ ~page_success => Len(self_results) = pageStartLen
  /\ page_success =>
       /\ Len(self_results) = pageStartLen + Len(lastItems)
       /\ \A i \in 1..Len(lastItems) :
            self_results[pageStartLen + i] = article_record(lastItems[i]).rec

====
